---- MODULE Spec2Model ----
(***************************************************************************)
(* Hydro-AI: the client-side data access layer (services/api.ts, two       *)
(* revisions: src/unnamed/part_002 lines 90-285 and src/unnamed/part_003)  *)
(* and the report service (services/geminiService.ts, two revisions:       *)
(* src/services/geminiService.ts and src/unnamed/part_002 lines 1-89).     *)
(*                                                                         *)
(* Every operation is an async function: it issues one request, is         *)
(* suspended at the await, and resumes when the promise settles.  One      *)
(* invocation is one slot of Inv; the settle of a promise and the          *)
(* synchronous code that follows it (the rest of the try block, or the     *)
(* catch block) are one action.                                            *)
(*                                                                         *)
(* Numbers: volumes are integers (MCM); JavaScript doubles are modelled as *)
(* exact rationals, a value printed by toFixed(d) as the integer count of  *)
(* 10^-d units (anomaly_score in hundredths, deviation_percent and the     *)
(* forecast in tenths).                                                    *)
(*                                                                         *)
(* The App component (src/App.tsx, older revision src/unnamed/part_001)    *)
(* is modelled by its state hooks and one action per handler; its report   *)
(* generation is an invocation of generateHydrologicalReport.  The clock   *)
(* read by new Date() is the variable now.  The initial state is the one   *)
(* after the effects of the first render.  A run of the data-refresh       *)
(* effect (fetchRealData) is a record of runs, each of its access-layer    *)
(* calls resolving with any value the access layer can return.  The hook   *)
(* useSensorStream (src/hooks/useSensorStream.ts) and the HydroChat        *)
(* component (src/components/HydroChat.tsx, two revisions in one file)     *)
(* have their own variables and specifications.                            *)
(***************************************************************************)
EXTENDS Integers, Sequences, FiniteSets, TLC

\* ---------------------------------------------------------------- bounds
\* Number of invocations that can be in flight together.
MaxInv == 2
\* Longest response text of the generative service, in tokens.
MaxTextLen == 2
\* Largest magnitude of the small volumes tried in the anomaly check.
MaxAnomalyInput == 8
\* Longest series of historical volumes given to getForecast.
MaxSeriesLen == 4
\* Number of steps between the least and the greatest draw of Math.random().
MaxDraw == 4
\* Number of ticks of the clock between two timestamps.
MaxClock == 2
\* Runs of the data-refresh effect of App, the first one started on mount.
MaxRuns == 2
\* WebSockets created by one use of useSensorStream.
MaxSockets == 3
\* Clicks on Download Report.
MaxClicks == 2
\* Messages in the list of HydroChat.
MaxMessages == 6

Inv == 1..MaxInv

\* ------------------------------------------------------------- revisions
\* The two revisions of services/api.ts found in the repository.
ApiRevs == {"part_002", "part_003"}
\* The two revisions of services/geminiService.ts.
ReportRevs == {"part_002", "geminiService"}

ApiOps ==
    {"getSatelliteData", "getForecast", "checkAnomaly", "generateReport",
     "sendFeedback", "getMLMetrics"}
ReportOps == {"generateReport", "generateHydrologicalReport"}
Ops == ApiOps \cup {"generateHydrologicalReport"}

\* ------------------------------------------------------ JavaScript values
Undefined == [t |-> "undefined"]
Null == [t |-> "null"]
EmptyObject == [t |-> "object"]
NoValue == [t |-> "none"]

\* new Date().toISOString() at clock reading n; a timestamp the backend made
\* up has a reading before the session started.
Timestamp(n) == [t |-> "string", at |-> n]
BackendTimestamp == Timestamp(-1)

\* The fields of a value that is an object (none for null / undefined).
Fields(v) == DOMAIN v \ {"t"}

Abs(x) == IF x < 0 THEN -x ELSE x
Max(a, b) == IF a >= b THEN a ELSE b
Min(a, b) == IF a <= b THEN a ELSE b

\* Number.prototype.toFixed: n/d to the nearest integer, a tie away from zero
\* (toFixed formats |x| and puts the sign back).
RoundDiv(n, d) ==
    LET an == Abs(n)
        ad == Abs(d)
        q == (2 * an + ad) \div (2 * ad)
    IN  IF (n < 0) = (d < 0) THEN q ELSE -q

\* a || b on numbers: b when a is 0 (NaN does not arise from integer inputs).
OrElse(a, b) == IF a # 0 THEN a ELSE b

\* ------------------------------------------------------------- endpoints
GenerativeService == "generativelanguage:generateContent"

Endpoint(o, rev) ==
    CASE o = "getSatelliteData" -> "/api/satellite"
      [] o = "getForecast" -> "/api/ml/forecast"
      [] o = "checkAnomaly" -> "/api/ml/anomaly"
      [] o = "generateReport" ->
            IF rev = "part_002" THEN "/api/gemini/analyze" ELSE "/api/native/analyze"
      [] o = "sendFeedback" -> "/api/ml/retrain"
      [] o = "getMLMetrics" -> "/api/ml/metrics"
      [] OTHER -> GenerativeService

Endpoints ==
    {"/api/satellite", "/api/ml/forecast", "/api/ml/anomaly", "/api/gemini/analyze",
     "/api/native/analyze", "/api/ml/retrain", "/api/ml/metrics", GenerativeService}

\* axios { timeout } of each request, in ms; 0: the call sets no timeout
\* (ai.models.generateContent is called with model, contents and config only).
TimeoutMs(e) ==
    CASE e \in {"/api/satellite", "/api/ml/forecast", "/api/ml/anomaly", "/api/ml/metrics"} -> 3000
      [] e \in {"/api/gemini/analyze", "/api/native/analyze", "/api/ml/retrain"} -> 5000
      [] OTHER -> 0

\* --------------------------------------------------- satellite simulation
\* Math.random() is drawn in thousandths (0..999); maxCapacity is counted in
\* hundredths of an MCM, fill fractions in 10^-4, fill_percentage, volume_mcm,
\* water_level_m and cloud_cover_pct in tenths.  nan lists the fields whose
\* double is NaN.  surface_area_sqkm itself (volume^0.66 * 1.2) is not
\* computed: only whether it is a number.
baseFillMap(season) ==
    CASE season = "Monsoon" -> 8500
      [] season = "Post-Monsoon" -> 7500
      [] season = "Winter" -> 6000
      [] season = "Summer" -> 3500
      [] OTHER -> 0

\* baseFillMap is an object literal: a key it does not define itself is looked
\* up in Object.prototype, whose members are functions and objects, all truthy.
ObjectPrototypeKeys ==
    {"constructor", "toString", "valueOf", "hasOwnProperty", "isPrototypeOf",
     "propertyIsEnumerable", "toLocaleString", "__proto__"}

\* Math.max(0.1, Math.min(0.98, x))
ClampFill(x) == Max(1000, Min(9800, x))

simulateGEE(season, maxCapacity, rnd1, rnd2, clock) ==
    LET \* baseFillMap[season] || 0.5; an inherited member plus a number is a
        \* string, of which Math.min makes NaN
        inherited == season \in ObjectPrototypeKeys
        baseFill == OrElse(baseFillMap(season), 5000)
        noise == rnd1 - 500
        fillPct == ClampFill(baseFill + noise)
        \* in 10^-6 MCM
        volume == maxCapacity * fillPct
    IN  [ volume_mcm |-> IF inherited THEN 0 ELSE RoundDiv(volume, 100000),
          \* 10 + (volume / maxCapacity) * 20, 0 / 0 for maxCapacity = 0
          water_level_m |->
              IF inherited \/ maxCapacity = 0 THEN 0
              ELSE RoundDiv(100000 + 20 * fillPct, 1000),
          fill_percentage |-> IF inherited THEN 0 ELSE RoundDiv(fillPct, 10),
          cloud_cover_pct |-> RoundDiv(rnd2 * 3, 10),
          rainfall_mm |-> IF season = "Monsoon" THEN 800 ELSE 100,
          satellite_pass |-> Timestamp(clock),
          nan |-> IF inherited
                  THEN {"surface_area_sqkm", "volume_mcm", "water_level_m", "fill_percentage"}
                  ELSE (IF maxCapacity = 0 THEN {"water_level_m"} ELSE {})
                       \cup (IF volume < 0 THEN {"surface_area_sqkm"} ELSE {}) ]

\* A fallback that labels its reading like the backend does.
SimulationLabel_Live(rev) == "Sentinel-2 (Google Earth Engine)"

\* The source label of the catch block of getSatelliteData.
SimulationLabel(rev) ==
    IF rev = "part_002" THEN "Client-Side Simulation (Offline)"
    ELSE "Simulated Physics Engine (Active)"

\* ------------------------------------------------------------ getForecast
RECURSIVE SumSeq(_)
SumSeq(s) == IF s = <<>> THEN 0 ELSE Head(s) + SumSeq(Tail(s))

\* A slice that keeps the whole series.
LastThree_All(s) == s

\* Array.prototype.slice(-3)
LastThree(s) == IF Len(s) <= 3 THEN s ELSE SubSeq(s, Len(s) - 2, Len(s))

Number(tenths) == [t |-> "number", tenths |-> tenths]

\* catch block of getForecast: the value in tenths.
ForecastFallback(historicalVolumes, rev) ==
    IF Len(historicalVolumes) = 0 THEN Number(0)
    ELSE LET recent == LastThree(historicalVolumes)
             sum == SumSeq(recent)
         IN  IF rev = "part_002"
             THEN Number(RoundDiv(sum * 10, Len(recent)))
             ELSE Number(RoundDiv(sum * 102, Len(recent) * 10))

\* ----------------------------------------------------------- checkAnomaly
\* catch block of checkAnomaly.  stdDev is counted in hundredths:
\* historicalAvg * 0.15 || 1.
AnomalyStdDev100_NoFloor(historicalAvg) == historicalAvg * 15

AnomalyStdDev100(historicalAvg) == OrElse(historicalAvg * 15, 100)

\* A double division by 0 gives Infinity (or NaN for 0 / 0), which toFixed and
\* Number pass on: nan lists the fields that are not finite numbers.
AnomalyFallback(currentVol, historicalAvg) ==
    LET deviation == Abs(currentVol - historicalAvg)
        stdDev100 == AnomalyStdDev100(historicalAvg)
        \* score = deviation / stdDev = (100 * deviation) / stdDev100
    IN  [ t |-> "object",
          \* score > 2.5: a score with a negative denominator is <= 0, Infinity
          \* is greater than 2.5 and NaN is not
          is_anomaly |->
              IF stdDev100 > 0 THEN 200 * deviation > 5 * stdDev100
              ELSE stdDev100 = 0 /\ deviation > 0,
          anomaly_score |->
              IF stdDev100 = 0 THEN 0 ELSE RoundDiv(10000 * deviation, stdDev100),
          deviation_percent |-> RoundDiv(1000 * deviation, OrElse(historicalAvg, 1)),
          nan |-> IF stdDev100 = 0 THEN {"anomaly_score"} ELSE {} ]

\* ----------------------------------------------------------- getMLMetrics
ModelMetric(accuracy, type, status, last_updated) ==
    [accuracy |-> accuracy, type |-> type, status |-> status, last_updated |-> last_updated]

\* catch block of getMLMetrics; part_003 stamps each entry with
\* new Date().toISOString().
MetricsFallback(rev, clock) ==
    IF rev = "part_002"
    THEN [ t |-> "object",
           RandomForestRegressor |-> ModelMetric("Offline", "Regression", "Offline", Null),
           IsolationForest |-> ModelMetric("Offline", "Anomaly Detection", "Offline", Null) ]
    ELSE [ t |-> "object",
           RandomForestRegressor |->
               ModelMetric("0.985", "Regression", "Active", Timestamp(clock)),
           IsolationForest |->
               ModelMetric("0.942", "Anomaly Detection", "Active", Timestamp(clock)) ]

\* ----------------------------------------------------------------- reports
SixFields ==
    {"riskLevel", "floodProbability", "droughtSeverity", "forecast", "summary",
     "recommendation"}

Report(riskLevel, summary, recommendation, floodProbability, droughtSeverity, forecast) ==
    [ t |-> "object", riskLevel |-> riskLevel, summary |-> summary,
      recommendation |-> recommendation, floodProbability |-> floodProbability,
      droughtSeverity |-> droughtSeverity, forecast |-> forecast ]

\* An answer of the documented AIAnalysisResult shape, and one that carries only
\* the three fields the first revision's responseSchema asks for.
FullReport ==
    Report("High", "Storage is 93% of capacity.", "Open the sluice gates.", 80, "Normal",
           "Inflow stays high.")
PartialReport ==
    [ t |-> "object", riskLevel |-> "High", summary |-> "Storage is 93% of capacity.",
      recommendation |-> "Open the sluice gates." ]

\* Every revision answering with the static object of generateReport in part_003.
StaticReport_Simulated(o, rev, rrev) ==
    Report("Moderate",
           "Integrated Analysis (Simulated): Water levels are within expected seasonal variance.",
           "Continue standard monitoring protocols.",
           12, "Normal", "Stable conditions expected for next 14 days.")

\* The object each report operation returns from its last catch block.
StaticReport(o, rev, rrev) ==
    IF o = "generateReport"
    THEN IF rev = "part_002"
         THEN Report("Moderate",
                     "AI Analysis temporarily unavailable (Backend & API unreachable).",
                     "Use manual calculations and monitor water levels closely.",
                     0, "Normal", "Data unavailable.")
         ELSE Report("Moderate",
                     "Integrated Analysis (Simulated): Water levels are within expected seasonal variance.",
                     "Continue standard monitoring protocols.",
                     12, "Normal", "Stable conditions expected for next 14 days.")
    ELSE IF rrev = "geminiService"
         THEN Report("Moderate",
                     "AI analysis unavailable due to connectivity issues. Standard monitoring protocols apply.",
                     "Continue manual observation and log data points.",
                     0, "Normal", "Prediction unavailable due to data service interruption.")
         ELSE [ t |-> "object", riskLevel |-> "Moderate",
                summary |-> "AI analysis unavailable due to connectivity issues. Standard monitoring protocols apply.",
                recommendation |-> "Continue manual observation and log data points." ]

\* ------------------------------------------------ generative response text
\* A response text is a sequence of tokens: white space, the markdown fences
\* ```json and ```, a JSON object with the six report fields, a JSON object
\* with three of them, the JSON literal null, and text that is no JSON.
Tokens == {"ws", "fence_json", "fence", "full", "partial", "null", "junk"}
JSONValueTokens == {"full", "partial", "null"}

Texts == UNION {[1..n -> Tokens] : n \in 0..MaxTextLen}

TokenValue(tok) ==
    CASE tok = "full" -> FullReport
      [] tok = "partial" -> PartialReport
      [] OTHER -> Null

\* text.replace(/```json/g, '').replace(/```/g, '')
StripFences(s) == SelectSeq(s, LAMBDA x : x \notin {"fence_json", "fence"})

\* String.prototype.trim
RECURSIVE TrimLeft(_)
TrimLeft(s) == IF s # <<>> /\ Head(s) = "ws" THEN TrimLeft(Tail(s)) ELSE s
RECURSIVE TrimRight(_)
TrimRight(s) ==
    IF s # <<>> /\ s[Len(s)] = "ws" THEN TrimRight(SubSeq(s, 1, Len(s) - 1)) ELSE s
Trim(s) == TrimRight(TrimLeft(s))

\* A parser that answers null where JSON.parse throws.
JSONParse_Swallow(s) ==
    LET core == TrimRight(TrimLeft(s))
    IN  IF Len(core) = 1 /\ core[1] \in JSONValueTokens
        THEN [raised |-> FALSE, value |-> TokenValue(core[1])]
        ELSE [raised |-> FALSE, value |-> Null]

\* JSON.parse: white space, one value, white space; a SyntaxError otherwise.
JSONParse(s) ==
    LET core == Trim(s)
    IN  IF Len(core) = 1 /\ core[1] \in JSONValueTokens
        THEN [raised |-> FALSE, value |-> TokenValue(core[1])]
        ELSE [raised |-> TRUE, value |-> NoValue]

\* What generateContent resolves with: result.text is a string or undefined.
GenAnswers(T) ==
    {[defined |-> TRUE, text |-> x] : x \in T} \cup {[defined |-> FALSE, text |-> <<>>]}

\* !text / if (response.text)
Falsy(ans) == ~ans.defined \/ ans.text = <<>>

\* The statements after the await of generateContent, inside the try block.
GenTryBody(o, ans) ==
    IF Falsy(ans) THEN [raised |-> TRUE, value |-> NoValue]
    ELSE IF o = "generateReport" THEN JSONParse(Trim(StripFences(ans.text)))
    ELSE JSONParse(ans.text)

\* ------------------------------------------------------- backend payloads
\* response.data of a 2xx answer: the documented success shape of the
\* operation, or a body that does not have it ({} and null).
GoodPayload(o) ==
    CASE o = "getSatelliteData" ->
            [ t |-> "object", source |-> "Sentinel-2 (Google Earth Engine)",
              data |-> [ volume_mcm |-> 8123, water_level_m |-> 262, fill_percentage |-> 812,
                         cloud_cover_pct |-> 45, rainfall_mm |-> 640,
                         satellite_pass |-> BackendTimestamp, nan |-> {} ] ]
      [] o = "getForecast" -> [t |-> "object", next_season_volume_prediction |-> Number(812)]
      [] o = "checkAnomaly" ->
            [ t |-> "object", is_anomaly |-> FALSE, anomaly_score |-> 33,
              deviation_percent |-> 50, nan |-> {} ]
      [] o = "generateReport" -> FullReport
      [] o = "sendFeedback" -> [t |-> "object", status |-> "retraining_scheduled"]
      [] OTHER ->
            [ t |-> "object",
              RandomForestRegressor |->
                  ModelMetric("0.912", "Regression", "Trained", BackendTimestamp),
              IsolationForest |->
                  ModelMetric("0.887", "Anomaly Detection", "Trained", BackendTimestamp) ]

MalformedPayloads == {EmptyObject, Null}
BackendPayloads(o) == {GoodPayload(o)} \cup MalformedPayloads

\* The fields of the success response shape of each operation (the feedback
\* answer is ignored; a metrics answer is a mapping with any model names).
RequiredFields(o) ==
    CASE o = "getSatelliteData" -> {"source", "data"}
      [] o = "getForecast" -> {"next_season_volume_prediction"}
      [] o = "checkAnomaly" -> {"is_anomaly", "anomaly_score", "deviation_percent"}
      [] o = "generateReport" -> SixFields
      [] OTHER -> {}

WellFormed(o, d) == d.t = "object" /\ RequiredFields(o) \subseteq Fields(d)

\* The statements of the try block after the await, with response.data = d:
\* the value returned, or raised when a statement throws (a property read on
\* null is a TypeError).
TryBody(o, d) ==
    CASE o = "getForecast" ->
            IF d.t \in {"null", "undefined"} THEN [raised |-> TRUE, value |-> NoValue]
            ELSE IF "next_season_volume_prediction" \in Fields(d)
                 THEN [raised |-> FALSE, value |-> d.next_season_volume_prediction]
                 ELSE [raised |-> FALSE, value |-> Undefined]
      [] o = "sendFeedback" ->
            [raised |-> FALSE, value |-> [t |-> "object", status |-> 200, data |-> d]]
      [] OTHER -> [raised |-> FALSE, value |-> d]

\* A catch block that passes the error of getForecast on to the caller.
OnFailure_Rethrow(o, rev) ==
    IF o = "getForecast" THEN "rethrow"
    ELSE IF o = "generateReport" /\ rev = "part_002" THEN "nextTier" ELSE "fallback"

\* A catch block that sends the request of getForecast again.
OnFailure_Retry(o, rev) ==
    IF o = "getForecast" THEN "retry"
    ELSE IF o = "generateReport" /\ rev = "part_002" THEN "nextTier" ELSE "fallback"

\* What the catch block of the request does: compute the fallback value and
\* return it, or go on to the next tier (the direct generative call).  No
\* catch block of the repository rethrows or repeats the request.
OnFailure(o, rev) ==
    IF o = "generateReport" /\ rev = "part_002" THEN "nextTier" ELSE "fallback"

\* What the catch block around the generative call does.
OnGenFailure(o) == "fallback"

\* A catch block of sendFeedback that answers with a record of its own.
FeedbackFallback_Queued == [t |-> "object", queued |-> TRUE]

\* The catch block of sendFeedback has no return statement.
FeedbackFallback == Undefined

\* The values the catch block can return; R: the draws of Math.random(),
\* clock: the reading of the clock when it runs.
FallbackValues(o, a, rev, rrev, R, clock) ==
    CASE o = "getSatelliteData" ->
            { [ t |-> "object", source |-> SimulationLabel(rev),
                data |-> simulateGEE(a.season, a.maxCapacity, r1, r2, clock) ] :
                r1 \in R, r2 \in R }
      [] o = "getForecast" -> {ForecastFallback(a.historicalVolumes, rev)}
      [] o = "checkAnomaly" -> {AnomalyFallback(a.currentVol, a.historicalAvg)}
      [] o = "sendFeedback" -> {FeedbackFallback}
      [] o = "getMLMetrics" -> {MetricsFallback(rev, clock)}
      [] OTHER -> {StaticReport(o, rev, rrev)}

\* -------------------------------------------------------------------- App
\* RESERVOIRS and getHistoricalData (services/mockData) are not in the
\* repository: two reservoir ids stand for the list, and the years of the
\* initial state (compareYear 2023, year 2024) for availableYears.
ReservoirIds == {"chembarambakkam", "poondi"}
availableYears == {2023, 2024}
availableSeasons == <<"Winter", "Summer", "Monsoon", "Post-Monsoon">>

SetMax(S) == CHOOSE x \in S : \A y \in S : y <= x
SetMin(S) == CHOOSE x \in S : \A y \in S : x <= y

\* availableSeasons.indexOf(season), counted from 1
SeasonIdx(season) == CHOOSE k \in 1..Len(availableSeasons) : availableSeasons[k] = season

\* useState<SimulationState>(...)
InitialState ==
    [ selectedReservoirId |-> "chembarambakkam", year |-> 2024, season |-> "Post-Monsoon",
      isComparisonMode |-> FALSE ]

\* What the controls pass to handleStateChange: a Partial<SimulationState>.
NewStates ==
    {[selectedReservoirId |-> r] : r \in ReservoirIds}
    \cup {[year |-> y] : y \in availableYears}
    \cup {[season |-> availableSeasons[k]] : k \in 1..Len(availableSeasons)}
    \cup {[isComparisonMode |-> b] : b \in BOOLEAN}

\* { ...prev, ...newState }
Merge(prev, newState) ==
    [f \in DOMAIN prev |-> IF f \in DOMAIN newState THEN newState[f] ELSE prev[f]]

\* The arguments handleGenerateAI passes: selectedReservoir and the
\* currentData of the selected year and season.
ReportArgs(st) ==
    [reservoir |-> st.selectedReservoirId, year |-> st.year, season |-> st.season]

\* An updater that goes on to the year after the last one.
NextFrame_NoWrap(prev) ==
    LET idx == SeasonIdx(prev.season) + 1
        wrapSeason == idx > Len(availableSeasons)
    IN  [ prev EXCEPT
            !.year = IF wrapSeason THEN prev.year + 1 ELSE prev.year,
            !.season = IF wrapSeason THEN availableSeasons[1] ELSE availableSeasons[idx] ]

\* The updater of the time-lapse interval: the next season, the next year
\* after Post-Monsoon, the first year and Winter after the last year.
NextFrame(prev) ==
    LET idx == SeasonIdx(prev.season) + 1
        wrapSeason == idx > Len(availableSeasons)
        nextYear == IF wrapSeason THEN prev.year + 1 ELSE prev.year
        wrapYear == nextYear > SetMax(availableYears)
    IN  [ prev EXCEPT
            !.year = IF wrapYear THEN SetMin(availableYears) ELSE nextYear,
            !.season = IF wrapSeason \/ wrapYear THEN availableSeasons[1]
                       ELSE availableSeasons[idx] ]

\* A test that takes every value for a result.
Truthy_Always(v) == TRUE

\* if (aiAnalysis) / if (result): null and undefined are falsy, a report
\* object is truthy.
Truthy(v) == v.t \notin {"null", "undefined", "none"}

\* What the reservoir selector passes to handleStateChange.
ReservoirChoices == {[selectedReservoirId |-> r] : r \in ReservoirIds}

\* A handler that leaves the time-lapse running.
StopsPlay_Never(newState) == FALSE

\* handleStateChange: newState.year || newState.season ||
\* newState.selectedReservoirId (no year, season or id is falsy)
StopsPlay(newState) == DOMAIN newState \cap {"year", "season", "selectedReservoirId"} # {}

\* A control event or tick, and whether the time-lapse was running when it
\* was handled.
Event(name, wasPlaying) == [name |-> name, wasPlaying |-> wasPlaying]

\* What an invocation of operation o of the access layer can resolve with:
\* the value its try block returns for a 2xx body, or the value of its catch
\* block.  R: the draws of Math.random(), clock: the reading of the clock.
ApiResults(o, a, rev, rrev, R, clock) ==
    {TryBody(o, d).value : d \in {e \in BackendPayloads(o) : ~TryBody(o, e).raised}}
    \cup (IF OnFailure(o, rev) = "fallback"
          THEN FallbackValues(o, a, rev, rrev, R, clock) ELSE {})

\* selectedReservoir.maxCapacity, in hundredths of an MCM; historicalData and
\* baseData, volumes and levels in tenths.  services/mockData is not in the
\* repository: these values stand for its tables.
maxCapacity(reservoirId) == IF reservoirId = "chembarambakkam" THEN 10300 ELSE 9100

historicalVolumes(reservoirId) ==
    IF reservoirId = "chembarambakkam" THEN <<10, 20, 30>> ELSE <<20, 30, 30>>

baseData(sel) ==
    [ volume |-> 100 * SeasonIdx(sel.season) + (IF sel.reservoir = "poondi" THEN 50 ELSE 0),
      waterLevel |-> 200 + 10 * SeasonIdx(sel.season) ]

\* The object fetchRealData passes to setLiveData after its second await.
LiveReading(satData) ==
    [ t |-> "object", volume |-> satData.data.volume_mcm,
      waterLevel |-> satData.data.water_level_m,
      cloudCover |-> satData.data.cloud_cover_pct ]

\* The object its catch block passes when liveData is still null.
BaseReading(sel) ==
    [ t |-> "object", volume |-> baseData(sel).volume,
      waterLevel |-> baseData(sel).waterLevel, cloudCover |-> 100 ]

\* A catch block that reports the failure in the header.
StatusAfterError_Offline == "offline"

\* setBackendStatus(...) in the catch block of fetchRealData.
StatusAfterError == "online"

\* The header badge and the live mark of the primary map.
HeaderBadge(status) == IF status = "online" THEN "Live Backend" ELSE "Offline Mode"
MapIsLive(status) == status = "online"

\* A message of HydroChat.  kind and reservoir tell the messages apart:
\* the greeting, the context message of the reservoir effect, a question of
\* the user, the reply to it.  A text is a sequence of tokens: "ws" is white
\* space, "q" a word.
Message(role, kind, reservoirId, text) ==
    [role |-> role, kind |-> kind, reservoir |-> reservoirId, text |-> text]

\* useState<Message[]>([greeting]), then the reservoir effect of the first
\* render.
InitialMessages ==
    << Message("model", "greeting", InitialState.selectedReservoirId, <<>>),
       Message("model", "context", InitialState.selectedReservoirId, <<>>) >>

\* A run of fetchRealData: where it is, the selection its closure holds, the
\* satellite answer it got and how it ended.
Run(pos, sel, satData, outcome) ==
    [pc |-> pos, sel |-> sel, satData |-> satData, outcome |-> outcome]

NoRun == Run("unused", NoValue, NoValue, "none")

\* ------------------------------------------------------------------ state
VARIABLES
    apiRevision,     \* the revision of services/api.ts that is deployed
    reportRevision,  \* the revision of services/geminiService.ts
    pc,              \* per invocation: idle, requesting, generating, returned, thrown
    op,              \* per invocation: the operation called
    arg,             \* per invocation: its arguments
    remote,          \* per invocation: how the request to the backend ended
    resp,            \* per invocation: response.data of a 2xx answer
    genState,        \* per invocation: none, pending, error, answered
    genAns,          \* per invocation: what generateContent resolved with
    ret,             \* per invocation: the value the promise resolved with
    attempts,        \* per invocation: requests it sent to its backend endpoint
    genCalls,        \* per invocation: calls it made to the generative service
    fallbacks,       \* per invocation: runs of a block that builds a fallback value
    sent,            \* per endpoint: requests that reached the network
    now,             \* the reading of the clock (Date)
    state,           \* App: the SimulationState (selection and comparison mode)
    aiAnalysis,      \* App: the report on display, or null
    aiAnalysisOf,    \* App: the invocation whose result aiAnalysis holds (0: none)
    isGeneratingReport,  \* App: handleGenerateAI is awaiting its report
    reportCall,      \* App: the invocation handleGenerateAI awaits (0: none)
    isPlaying,       \* App: the time-lapse is running
    lastEvent,       \* App: the last control event or time-lapse tick handled
    liveData,        \* App: the satellite reading on display, or null
    liveDataOf,      \* App: the run of fetchRealData that set liveData (0: none)
    mlForecast,      \* App: the forecast on display, or null
    mlForecastOf,    \* App: the run of fetchRealData that set mlForecast (0: none)
    isLoadingLive,   \* App: the loading overlay is shown
    backendStatus,   \* App: 'online' or 'offline'
    runs,            \* App: per run of fetchRealData: its position and locals
    clicks,          \* App: clicks on Download Report that were handled
    prints,          \* App: calls of window.print()
    alerts,          \* App: calls of alert()
    printTimers,     \* App: pending timers of handleDownloadReport
    downloadAwaits,  \* App: handleDownloadReport awaits handleGenerateAI
    sockets,         \* useSensorStream: per WebSocket it created: its readyState
    wsCurrent,       \* useSensorStream: the socket in ws.current (0: none)
    isConnected,     \* useSensorStream: the flag it returns
    mounted,         \* useSensorStream: the component using the hook is mounted
    input,           \* HydroChat: the text in the input box
    messages,        \* HydroChat: the message list
    isThinking,      \* HydroChat: a reply is pending
    replyTimers      \* HydroChat: pending timers of handleSend

vars ==
    <<apiRevision, reportRevision, pc, op, arg, remote, resp, genState, genAns, ret,
      attempts, genCalls, fallbacks, sent, now, state, aiAnalysis, aiAnalysisOf,
      isGeneratingReport, reportCall, isPlaying, lastEvent, liveData, liveDataOf, mlForecast,
      mlForecastOf, isLoadingLive, backendStatus, runs, clicks, prints, alerts,
      printTimers, downloadAwaits, sockets, wsCurrent, isConnected, mounted, input,
      messages, isThinking, replyTimers>>

\* The state of the App component: selection and report, ...
appVars ==
    <<state, aiAnalysis, aiAnalysisOf, isGeneratingReport, reportCall, isPlaying, lastEvent>>

\* ... the data-refresh effect, ...
refreshVars ==
    <<liveData, liveDataOf, mlForecast, mlForecastOf, isLoadingLive, backendStatus, runs>>

\* ... and handleDownloadReport.
printVars == <<clicks, prints, alerts, printTimers, downloadAwaits>>

\* The state of the useSensorStream hook.
streamVars == <<sockets, wsCurrent, isConnected, mounted>>

\* The state of the HydroChat component.
chatVars == <<input, messages, isThinking, replyTimers>>

\* The state of the user interface.
uiVars == <<appVars, refreshVars, printVars, streamVars, chatVars>>

NoAnswer == [defined |-> FALSE, text |-> <<"none">>]

Init ==
    /\ apiRevision \in ApiRevs
    /\ reportRevision \in ReportRevs
    /\ pc = [i \in Inv |-> "idle"]
    /\ op = [i \in Inv |-> "none"]
    /\ arg = [i \in Inv |-> NoValue]
    /\ remote = [i \in Inv |-> "none"]
    /\ resp = [i \in Inv |-> NoValue]
    /\ genState = [i \in Inv |-> "none"]
    /\ genAns = [i \in Inv |-> NoAnswer]
    /\ ret = [i \in Inv |-> NoValue]
    /\ attempts = [i \in Inv |-> 0]
    /\ genCalls = [i \in Inv |-> 0]
    /\ fallbacks = [i \in Inv |-> 0]
    /\ sent = [e \in Endpoints |-> 0]
    /\ now = 0
    /\ state = InitialState
    /\ aiAnalysis = Null
    /\ aiAnalysisOf = 0
    /\ isGeneratingReport = FALSE
    /\ reportCall = 0
    /\ isPlaying = FALSE
    /\ lastEvent = Event("none", FALSE)
    \* the effects of the first render have run: fetchRealData is at its first
    \* await, the socket of useSensorStream is connecting, HydroChat has
    \* appended the context message of its reservoir effect
    /\ liveData = Null
    /\ liveDataOf = 0
    /\ mlForecast = Null
    /\ mlForecastOf = 0
    /\ isLoadingLive = TRUE
    /\ backendStatus = "online"
    /\ runs = [r \in 1..MaxRuns |->
                 IF r = 1 THEN Run("satellite", ReportArgs(InitialState), NoValue, "none")
                 ELSE NoRun]
    /\ clicks = 0
    /\ prints = 0
    /\ alerts = 0
    /\ printTimers = 0
    /\ downloadAwaits = FALSE
    /\ sockets = [k \in 1..MaxSockets |-> IF k = 1 THEN "connecting" ELSE "none"]
    /\ wsCurrent = 1
    /\ isConnected = FALSE
    /\ mounted = TRUE
    /\ input = <<>>
    /\ messages = InitialMessages
    /\ isThinking = FALSE
    /\ replyTimers = <<>>

\* ----------------------------------------------------------------- inputs
\* The inputs of a specification: the operations called, the arguments of
\* each, the response texts of the generative service and the random draws.
LifecycleArgs(o) ==
    CASE o = "getSatelliteData" -> {[season |-> "Monsoon", maxCapacity |-> 10300]}
      [] o = "getForecast" -> {[historicalVolumes |-> <<10, 20, 30>>]}
      [] o = "checkAnomaly" -> {[currentVol |-> 150, historicalAvg |-> 100]}
      [] o = "generateReport" ->
            {[payload |-> [reservoir_name |-> "Chembarambakkam", season |-> "Monsoon",
                           current_volume |-> 90, max_capacity |-> 103,
                           rainfall_anomaly |-> -25]]}
      [] o = "sendFeedback" -> {[feedback |-> [correct |-> TRUE]]}
      [] o = "getMLMetrics" -> {[none |-> TRUE]}
      [] OTHER -> {[reservoir |-> "chembarambakkam", currentData |-> 90]}

LifecycleInputs ==
    [ ops |-> Ops,
      args |-> [o \in Ops |-> LifecycleArgs(o)],
      texts |-> {<<>>, <<"full">>, <<"partial">>, <<"junk">>},
      rand |-> {0, 999} ]

\* ---------------------------------------------------------------- actions
\* axios.post / axios.get, or generateContent for the report service, up to
\* the first await.  Invocation ids are handed out in call order.
Invoke(i, o, a) ==
    /\ pc[i] = "idle"
    /\ IF i = 1 THEN TRUE ELSE pc[i - 1] # "idle"
    /\ op' = [op EXCEPT ![i] = o]
    /\ arg' = [arg EXCEPT ![i] = a]
    /\ IF o = "generateHydrologicalReport"
       THEN /\ pc' = [pc EXCEPT ![i] = "generating"]
            /\ genState' = [genState EXCEPT ![i] = "pending"]
            /\ genCalls' = [genCalls EXCEPT ![i] = @ + 1]
            /\ sent' = [sent EXCEPT ![GenerativeService] = @ + 1]
            /\ UNCHANGED <<remote, attempts>>
       ELSE /\ pc' = [pc EXCEPT ![i] = "requesting"]
            /\ remote' = [remote EXCEPT ![i] = "pending"]
            /\ attempts' = [attempts EXCEPT ![i] = @ + 1]
            /\ sent' = [sent EXCEPT ![Endpoint(o, apiRevision)] = @ + 1]
            /\ UNCHANGED <<genState, genCalls>>
    /\ UNCHANGED <<apiRevision, reportRevision, resp, genAns, ret, fallbacks, now>>

\* A call of an operation by a caller that is not modelled further.
Call(i, I) ==
    \E o \in I.ops : \E a \in I.args[o] :
        /\ Invoke(i, o, a)
        /\ UNCHANGED uiVars

\* The catch block of the request of invocation i, entered after the request
\* ended as `how`.
Catch(i, how, I) ==
    LET todo == OnFailure(op[i], apiRevision)
    IN  /\ CASE todo = "fallback" ->
                  /\ \E v \in FallbackValues(op[i], arg[i], apiRevision, reportRevision, I.rand, now) :
                        ret' = [ret EXCEPT ![i] = v]
                  /\ pc' = [pc EXCEPT ![i] = "returned"]
                  /\ remote' = [remote EXCEPT ![i] = how]
                  /\ fallbacks' = [fallbacks EXCEPT ![i] = @ + 1]
                  /\ UNCHANGED <<genState, genCalls, attempts, sent>>
             [] todo = "nextTier" ->
                  /\ pc' = [pc EXCEPT ![i] = "generating"]
                  /\ remote' = [remote EXCEPT ![i] = how]
                  /\ genState' = [genState EXCEPT ![i] = "pending"]
                  /\ genCalls' = [genCalls EXCEPT ![i] = @ + 1]
                  /\ sent' = [sent EXCEPT ![GenerativeService] = @ + 1]
                  /\ UNCHANGED <<ret, fallbacks, attempts>>
             [] todo = "retry" ->
                  /\ remote' = [remote EXCEPT ![i] = "pending"]
                  /\ attempts' = [attempts EXCEPT ![i] = @ + 1]
                  /\ sent' = [sent EXCEPT ![Endpoint(op[i], apiRevision)] = @ + 1]
                  /\ UNCHANGED <<pc, ret, fallbacks, genState, genCalls>>
             [] OTHER ->
                  /\ pc' = [pc EXCEPT ![i] = "thrown"]
                  /\ remote' = [remote EXCEPT ![i] = how]
                  /\ UNCHANGED <<ret, fallbacks, genState, genCalls, attempts, sent>>
        /\ UNCHANGED <<apiRevision, reportRevision, op, arg, genAns, now, uiVars>>

\* The backend answers 2xx with body d: the rest of the try block runs.
RemoteResolve(i, I) ==
    /\ pc[i] = "requesting"
    /\ \E d \in BackendPayloads(op[i]) :
        LET r == TryBody(op[i], d)
        IN  /\ resp' = [resp EXCEPT ![i] = d]
            /\ IF r.raised
               THEN Catch(i, "2xx", I)
               ELSE /\ ret' = [ret EXCEPT ![i] = r.value]
                    /\ pc' = [pc EXCEPT ![i] = "returned"]
                    /\ remote' = [remote EXCEPT ![i] = "2xx"]
                    /\ UNCHANGED <<apiRevision, reportRevision, op, arg, genState, genAns,
                                   attempts, genCalls, fallbacks, sent, now, uiVars>>

\* The request is rejected: no connection, or a status outside 2xx.
RemoteReject(i, I) ==
    /\ pc[i] = "requesting"
    /\ \E how \in {"network", "non2xx"} : Catch(i, how, I)
    /\ UNCHANGED resp

\* The timer of the request fires before an answer: axios rejects it.
Timeout(i, I) ==
    /\ pc[i] = "requesting"
    /\ TimeoutMs(Endpoint(op[i], apiRevision)) > 0
    /\ Catch(i, "timeout", I)
    /\ UNCHANGED resp

\* The catch block around the generative call.
GenCatch(i) ==
    /\ IF OnGenFailure(op[i]) = "fallback"
       THEN /\ ret' = [ret EXCEPT ![i] = StaticReport(op[i], apiRevision, reportRevision)]
            /\ pc' = [pc EXCEPT ![i] = "returned"]
            /\ fallbacks' = [fallbacks EXCEPT ![i] = @ + 1]
       ELSE /\ pc' = [pc EXCEPT ![i] = "thrown"]
            /\ UNCHANGED <<ret, fallbacks>>
    /\ UNCHANGED <<apiRevision, reportRevision, op, arg, remote, resp, attempts, genCalls,
                   sent, now, uiVars>>

\* generateContent resolves: the rest of the try block runs.
GenResolve(i, I) ==
    /\ pc[i] = "generating"
    /\ \E ans \in GenAnswers(I.texts) :
        LET r == GenTryBody(op[i], ans)
        IN  /\ genState' = [genState EXCEPT ![i] = "answered"]
            /\ genAns' = [genAns EXCEPT ![i] = ans]
            /\ IF r.raised
               THEN GenCatch(i)
               ELSE /\ ret' = [ret EXCEPT ![i] = r.value]
                    /\ pc' = [pc EXCEPT ![i] = "returned"]
                    /\ UNCHANGED <<apiRevision, reportRevision, op, arg, remote, resp,
                                   attempts, genCalls, fallbacks, sent, now, uiVars>>

\* generateContent rejects: a network or service error.
GenReject(i) ==
    /\ pc[i] = "generating"
    /\ genState' = [genState EXCEPT ![i] = "error"]
    /\ UNCHANGED genAns
    /\ GenCatch(i)

\* Time passes: the clock (Date) shows a later reading.
Tick ==
    /\ now < MaxClock
    /\ now' = now + 1
    /\ UNCHANGED <<apiRevision, reportRevision, pc, op, arg, remote, resp, genState, genAns,
                   ret, attempts, genCalls, fallbacks, sent, uiVars>>

\* ------------------------------------------------------------ App handlers
\* The variables of the access layer and the report service.
serviceVars ==
    <<apiRevision, reportRevision, pc, op, arg, remote, resp, genState, genAns, ret,
      attempts, genCalls, fallbacks, sent, now>>

\* handleStateChange(newState), called by the dashboard controls: what the
\* handler itself sets.
StateChange(newState) ==
    /\ state' = Merge(state, newState)
    \* if (...) setIsPlaying(false)
    /\ isPlaying' = IF StopsPlay(newState) THEN FALSE ELSE isPlaying
    /\ lastEvent' = Event("handleStateChange", isPlaying)
    /\ aiAnalysis' = Null
    /\ aiAnalysisOf' = 0
    /\ UNCHANGED <<isGeneratingReport, reportCall>>
    /\ UNCHANGED <<serviceVars, printVars, streamVars>>

\* handleStateChange, the effects of the render that follows left out.
handleStateChange(newState) ==
    /\ StateChange(newState)
    /\ UNCHANGED <<refreshVars, chatVars>>

\* onTogglePlay: setIsPlaying(!isPlaying)
TogglePlay ==
    /\ isPlaying' = ~isPlaying
    /\ lastEvent' = Event("togglePlay", isPlaying)
    /\ UNCHANGED <<state, aiAnalysis, aiAnalysisOf, isGeneratingReport, reportCall>>
    /\ UNCHANGED <<serviceVars, refreshVars, printVars, streamVars, chatVars>>

\* The callback of the time-lapse interval, which runs while isPlaying.
TimeLapseTick ==
    /\ isPlaying
    /\ state' = NextFrame(state)
    /\ lastEvent' = Event("tick", isPlaying)
    /\ UNCHANGED <<aiAnalysis, aiAnalysisOf, isGeneratingReport, reportCall, isPlaying>>
    /\ UNCHANGED <<serviceVars, refreshVars, printVars, streamVars, chatVars>>

\* handleGenerateAI up to its await.  Its buttons are disabled while a report
\* is being generated (both) or is on display (Generate Report; Download
\* Report then prints without calling it).
GenerateAICall(i) ==
    /\ Invoke(i, "generateHydrologicalReport", ReportArgs(state))
    /\ isGeneratingReport' = TRUE
    /\ reportCall' = i
    /\ UNCHANGED <<state, aiAnalysis, aiAnalysisOf, isPlaying, lastEvent>>
    /\ UNCHANGED <<refreshVars, streamVars, chatVars>>

\* A click on Generate Report.
handleGenerateAI(i) ==
    /\ ~isGeneratingReport
    /\ aiAnalysis = Null
    /\ GenerateAICall(i)
    /\ UNCHANGED printVars

\* A click on Download Report (disabled while a report is being generated):
\* handleDownloadReport up to its return or its await of handleGenerateAI.
handleDownloadReport(i) ==
    /\ ~isGeneratingReport
    /\ clicks < MaxClicks
    /\ clicks' = clicks + 1
    /\ IF Truthy(aiAnalysis)
       THEN /\ prints' = prints + 1
            /\ UNCHANGED <<alerts, printTimers, downloadAwaits>>
            /\ UNCHANGED <<serviceVars, appVars, refreshVars, streamVars, chatVars>>
       ELSE /\ GenerateAICall(i)
            /\ downloadAwaits' = TRUE
            /\ UNCHANGED <<prints, alerts, printTimers>>

\* The timer handleDownloadReport set fires: window.print().
PrintTimerFires ==
    /\ printTimers > 0
    /\ printTimers' = printTimers - 1
    /\ prints' = prints + 1
    /\ UNCHANGED <<clicks, alerts, downloadAwaits>>
    /\ UNCHANGED <<serviceVars, appVars, refreshVars, streamVars, chatVars>>

\* handleGenerateAI after its await: setAiAnalysis(result) in the try block,
\* nothing in the catch block, setIsGeneratingReport(false) in finally; then
\* handleDownloadReport after its await, if it made the call: a timer for
\* window.print() when the result is truthy, alert and window.print() if not.
GenerateAIResume(i) ==
    /\ reportCall = i
    /\ pc[i] \in {"returned", "thrown"}
    /\ IF pc[i] = "returned"
       THEN aiAnalysis' = ret[i] /\ aiAnalysisOf' = i
       ELSE UNCHANGED <<aiAnalysis, aiAnalysisOf>>
    /\ isGeneratingReport' = FALSE
    /\ reportCall' = 0
    /\ IF downloadAwaits
       THEN /\ downloadAwaits' = FALSE
            /\ IF Truthy(IF pc[i] = "returned" THEN ret[i] ELSE Null)
               THEN /\ printTimers' = printTimers + 1
                    /\ UNCHANGED <<prints, alerts>>
               ELSE /\ alerts' = alerts + 1
                    /\ prints' = prints + 1
                    /\ UNCHANGED printTimers
            /\ UNCHANGED clicks
       ELSE UNCHANGED printVars
    /\ UNCHANGED <<state, isPlaying, lastEvent>>
    /\ UNCHANGED <<serviceVars, refreshVars, streamVars, chatVars>>

\* ------------------------------------------------- the data-refresh effect
\* The runs of fetchRealData started so far; the last one holds the
\* selection on display.
Started == {r \in 1..MaxRuns : runs[r].pc # "unused"}
InFlight == {r \in 1..MaxRuns : runs[r].pc \in {"satellite", "anomaly", "forecast"}}
LatestRun == Cardinality(Started)

\* fetchRealData up to its first await, called by the effect for the
\* selection of the new render.  Nothing cancels the runs before it.
StartRun ==
    LET r == LatestRun + 1
    IN  /\ r <= MaxRuns
        /\ isLoadingLive' = TRUE
        /\ runs' = [runs EXCEPT ![r] = Run("satellite", ReportArgs(state'), NoValue, "none")]
        /\ UNCHANGED <<liveData, liveDataOf, mlForecast, mlForecastOf, backendStatus>>

\* The effect runs after a render in which one of its dependencies
\* (selectedReservoir, state.season, state.year, historicalData, baseData)
\* changed.
DataRefreshEffect ==
    IF ReportArgs(state') # ReportArgs(state) THEN StartRun ELSE UNCHANGED refreshVars

\* handleStateChange and the data-refresh effect of the render that follows.
Reselect(newState) ==
    /\ StateChange(newState)
    /\ DataRefreshEffect
    /\ UNCHANGED chatVars

\* The catch and finally blocks of run r.
RunCatch(r, satData) ==
    /\ backendStatus' = StatusAfterError
    \* setLiveData(prev => prev || {...baseData, cloudCover: 10})
    /\ IF liveData # Null
       THEN UNCHANGED <<liveData, liveDataOf>>
       ELSE liveData' = BaseReading(runs[r].sel) /\ liveDataOf' = r
    /\ mlForecast' = Null
    /\ mlForecastOf' = r
    /\ isLoadingLive' = FALSE
    /\ runs' = [runs EXCEPT ![r] = Run("done", @.sel, satData, "caught")]

\* getSatelliteData resolves for run r: satData.data.volume_mcm is read (a
\* TypeError when satData is null or has no data) and checkAnomaly called.
SatelliteResolved(r, R) ==
    /\ runs[r].pc = "satellite"
    /\ \E v \in ApiResults("getSatelliteData",
                            [ season |-> runs[r].sel.season,
                              maxCapacity |-> maxCapacity(runs[r].sel.reservoir) ],
                            apiRevision, reportRevision, R, now) :
          IF v.t = "object" /\ "data" \in Fields(v)
          THEN /\ runs' = [runs EXCEPT ![r] = Run("anomaly", @.sel, v, "none")]
               /\ UNCHANGED <<liveData, liveDataOf, mlForecast, mlForecastOf,
                              isLoadingLive, backendStatus>>
          ELSE RunCatch(r, v)
    /\ UNCHANGED <<serviceVars, appVars, printVars, streamVars, chatVars>>

\* checkAnomaly resolves for run r (its value is dropped): setLiveData, then
\* getForecast is called.
AnomalyResolved(r) ==
    /\ runs[r].pc = "anomaly"
    /\ liveData' = LiveReading(runs[r].satData)
    /\ liveDataOf' = r
    /\ runs' = [runs EXCEPT ![r].pc = "forecast"]
    /\ UNCHANGED <<mlForecast, mlForecastOf, isLoadingLive, backendStatus>>
    /\ UNCHANGED <<serviceVars, appVars, printVars, streamVars, chatVars>>

\* getForecast resolves for run r: setMlForecast, setBackendStatus('online'),
\* then the finally block.
ForecastResolved(r) ==
    /\ runs[r].pc = "forecast"
    /\ \E f \in ApiResults("getForecast",
                            [historicalVolumes |-> historicalVolumes(runs[r].sel.reservoir)],
                            apiRevision, reportRevision, {0}, now) :
          mlForecast' = f
    /\ mlForecastOf' = r
    /\ backendStatus' = "online"
    /\ isLoadingLive' = FALSE
    /\ runs' = [runs EXCEPT ![r].pc = "done", ![r].outcome = "completed"]
    /\ UNCHANGED <<liveData, liveDataOf>>
    /\ UNCHANGED <<serviceVars, appVars, printVars, streamVars, chatVars>>

\* ------------------------------------------------------- specifications
\* Spec: MaxInv invocations of any operations, in flight together.
Next ==
    \E i \in Inv :
        \/ Call(i, LifecycleInputs)
        \/ RemoteResolve(i, LifecycleInputs)
        \/ RemoteReject(i, LifecycleInputs)
        \/ Timeout(i, LifecycleInputs)
        \/ GenResolve(i, LifecycleInputs)
        \/ GenReject(i)

Spec == Init /\ [][Next]_vars

\* FairSpec: a pending request whose call sets a timeout does not stay pending
\* for ever (its timer fires unless an answer comes first).  Nothing makes the
\* backend or the generative service answer.
FairSpec == Spec /\ \A i \in Inv : WF_vars(Timeout(i, LifecycleInputs))

\* SpecRefresh: the controls of the dashboard and the runs of the data-refresh
\* effect they start, at most MaxRuns of them, each access-layer call of a run
\* resolving with any value the access layer can return.
RefreshDraws == {0}

NextRefresh ==
    \/ \E newState \in NewStates : Reselect(newState)
    \/ \E r \in 1..MaxRuns :
          \/ SatelliteResolved(r, RefreshDraws)
          \/ AnomalyResolved(r)
          \/ ForecastResolved(r)

SpecRefresh == Init /\ [][NextRefresh]_vars

\* SpecReportText: one invocation of a report operation, the generative
\* service answering with every text of at most MaxTextLen tokens.
ReportTextInputs ==
    [ ops |-> ReportOps,
      args |-> [o \in Ops |-> LifecycleArgs(o)],
      texts |-> Texts,
      rand |-> {0} ]

NextReportText ==
    \/ Call(1, ReportTextInputs)
    \/ RemoteResolve(1, ReportTextInputs)
    \/ RemoteReject(1, ReportTextInputs)
    \/ Timeout(1, ReportTextInputs)
    \/ GenResolve(1, ReportTextInputs)
    \/ GenReject(1)

SpecReportText == Init /\ [][NextReportText]_vars

\* SpecAnomaly: one invocation of checkAnomaly, over small volumes of either
\* sign and the volumes of the documented examples.
AnomalyVolumes == (-MaxAnomalyInput..MaxAnomalyInput) \cup {100, 105, 150}

AnomalyInputs ==
    [ ops |-> {"checkAnomaly"},
      args |-> [o \in Ops |->
                  {[currentVol |-> c, historicalAvg |-> h] :
                      c \in AnomalyVolumes, h \in AnomalyVolumes}],
      texts |-> {<<>>},
      rand |-> {0} ]

NextAnomaly ==
    \/ Call(1, AnomalyInputs)
    \/ RemoteResolve(1, AnomalyInputs)
    \/ RemoteReject(1, AnomalyInputs)
    \/ Timeout(1, AnomalyInputs)

SpecAnomaly == Init /\ [][NextAnomaly]_vars

\* SpecForecast: one invocation of getForecast, over every series of at most
\* MaxSeriesLen volumes.
ForecastVolumes == {1, 10, 20, 30}

ForecastInputs ==
    [ ops |-> {"getForecast"},
      args |-> [o \in Ops |->
                  {[historicalVolumes |-> h] :
                      h \in UNION {[1..n -> ForecastVolumes] : n \in 0..MaxSeriesLen}}],
      texts |-> {<<>>},
      rand |-> {0} ]

NextForecast ==
    \/ Call(1, ForecastInputs)
    \/ RemoteResolve(1, ForecastInputs)
    \/ RemoteReject(1, ForecastInputs)
    \/ Timeout(1, ForecastInputs)

SpecForecast == Init /\ [][NextForecast]_vars

\* SpecSatellite: one invocation of getSatelliteData, over the four seasons,
\* other season strings, capacities from a hundredth of an MCM to that of
\* Chembarambakkam (103 MCM), zero and a negative one, and MaxDraw + 1 evenly
\* spread draws of Math.random().
SatelliteSeasons ==
    {"Winter", "Summer", "Monsoon", "Post-Monsoon", "", "Autumn", "constructor"}

SatelliteCapacities == {-100, 0, 1, 10, 100, 10300}

RandomDraws == {(999 * k) \div MaxDraw : k \in 0..MaxDraw}

SatelliteInputs ==
    [ ops |-> {"getSatelliteData"},
      args |-> [o \in Ops |->
                  {[season |-> s, maxCapacity |-> m] :
                      s \in SatelliteSeasons, m \in SatelliteCapacities}],
      texts |-> {<<>>},
      rand |-> RandomDraws ]

NextSatellite ==
    \/ Call(1, SatelliteInputs)
    \/ RemoteResolve(1, SatelliteInputs)
    \/ RemoteReject(1, SatelliteInputs)
    \/ Timeout(1, SatelliteInputs)

SpecSatellite == Init /\ [][NextSatellite]_vars

\* SpecForcedFallback: two invocations of the read operations while the
\* backend and the generative service are unreachable, at any readings of the
\* clock.
ReadOps == {"getSatelliteData", "getForecast", "checkAnomaly", "generateReport", "getMLMetrics"}

ForcedFallbackInputs ==
    [ ops |-> ReadOps,
      args |-> [o \in Ops |-> LifecycleArgs(o)],
      texts |-> {<<>>},
      rand |-> {0, 999} ]

NextForcedFallback ==
    \/ \E i \in {1, 2} :
          \/ Call(i, ForcedFallbackInputs)
          \/ RemoteReject(i, ForcedFallbackInputs)
          \/ Timeout(i, ForcedFallbackInputs)
          \/ GenReject(i)
    \/ Tick

SpecForcedFallback == Init /\ [][NextForcedFallback]_vars

\* SpecApp: the App component: its controls, the time-lapse and one report
\* generation, the generative service answering with a report, with text that
\* is no JSON, or not at all.
AppInputs ==
    [ ops |-> {"generateHydrologicalReport"},
      args |-> [o \in Ops |-> {}],
      texts |-> {<<"full">>, <<"junk">>},
      rand |-> {0} ]

NextApp ==
    \/ \E newState \in NewStates : handleStateChange(newState)
    \/ TogglePlay
    \/ TimeLapseTick
    \/ handleGenerateAI(1)
    \/ GenResolve(1, AppInputs)
    \/ GenReject(1)
    \/ GenerateAIResume(1)

SpecApp == Init /\ [][NextApp]_vars

\* --------------------------------------------------------- useSensorStream
\* WebSocket.close(): a socket that is connecting or open starts closing, its
\* close event comes later; nothing happens to one that is closing or closed.
CloseSocket(readyState) ==
    IF readyState \in {"connecting", "open"} THEN "closing" ELSE readyState

\* The cleanup of the effect: if (ws.current) ws.current.close()
Cleanup(socks) ==
    IF wsCurrent = 0 THEN socks
    ELSE [socks EXCEPT ![wsCurrent] = CloseSocket(@)]

\* The url passed to the hook changes: the cleanup of the last effect runs,
\* then the effect opens a socket for the new url and sets its handlers.
UrlChanges ==
    LET k == wsCurrent + 1
    IN  /\ mounted
        /\ k <= MaxSockets
        /\ sockets' = [Cleanup(sockets) EXCEPT ![k] = "connecting"]
        /\ wsCurrent' = k
        /\ UNCHANGED <<isConnected, mounted>>
        /\ UNCHANGED <<serviceVars, appVars, refreshVars, printVars, chatVars>>

\* The open event of socket k: its onopen handler runs (a state update of an
\* unmounted component does nothing).
SocketOpens(k) ==
    /\ sockets[k] = "connecting"
    /\ sockets' = [sockets EXCEPT ![k] = "open"]
    /\ isConnected' = IF mounted THEN TRUE ELSE isConnected
    /\ UNCHANGED <<wsCurrent, mounted>>
    /\ UNCHANGED <<serviceVars, appVars, refreshVars, printVars, chatVars>>

\* The close event of socket k (the connection failed, the server or the
\* network ended it, or the closing handshake is done): its onclose handler
\* runs.
SocketCloses(k) ==
    /\ sockets[k] \in {"connecting", "open", "closing"}
    /\ sockets' = [sockets EXCEPT ![k] = "closed"]
    /\ isConnected' = IF mounted THEN FALSE ELSE isConnected
    /\ UNCHANGED <<wsCurrent, mounted>>
    /\ UNCHANGED <<serviceVars, appVars, refreshVars, printVars, chatVars>>

\* The component using the hook unmounts: the cleanup runs.
Unmount ==
    /\ mounted
    /\ mounted' = FALSE
    /\ sockets' = Cleanup(sockets)
    /\ UNCHANGED <<wsCurrent, isConnected>>
    /\ UNCHANGED <<serviceVars, appVars, refreshVars, printVars, chatVars>>

\* SpecSensorStream: one use of the hook, its url changing at most
\* MaxSockets - 1 times.
NextSensorStream ==
    \/ UrlChanges
    \/ Unmount
    \/ \E k \in 1..MaxSockets : SocketOpens(k) \/ SocketCloses(k)

SpecSensorStream == Init /\ [][NextSensorStream]_vars

\* --------------------------------------------------------------- HydroChat
\* What the user can have typed into the input box.
ChatTexts == {<<>>, <<"ws">>, <<"q">>, <<"ws", "q">>}

\* A guard that only looks at the text.
SendIgnored_BlankOnly(text, thinking) == Trim(text) = <<>>

\* handleSend: if (!input.trim() || isThinking) return
SendIgnored(text, thinking) == Trim(text) = <<>> \/ thinking

\* onChange of the input box: setInput(e.target.value)
TypeInput(text) ==
    /\ input' = text
    /\ UNCHANGED <<messages, isThinking, replyTimers>>
    /\ UNCHANGED <<serviceVars, appVars, refreshVars, printVars, streamVars>>

\* handleSend, from the Send button or the Enter key: the question is
\* appended and a timer set for the reply.  The callback keeps userMsg and
\* the reservoir of the render in which it was made.
handleSend ==
    /\ Len(messages) + 2 <= MaxMessages
    /\ IF SendIgnored(input, isThinking)
       THEN UNCHANGED chatVars
       ELSE /\ input' = <<>>
            /\ messages' =
                  Append(messages, Message("user", "question", state.selectedReservoirId, input))
            /\ isThinking' = TRUE
            /\ replyTimers' =
                  Append(replyTimers, [userMsg |-> input, reservoir |-> state.selectedReservoirId])
    /\ UNCHANGED <<serviceVars, appVars, refreshVars, printVars, streamVars>>

\* The timer of handleSend fires: the reply is appended and isThinking
\* cleared.  (The first revision wraps the reply in try/catch and appends an
\* error message, also of role model, if processQuery throws; no statement of
\* processQuery or generateNativeResponse throws for the props App passes.)
ReplyTimerFires ==
    /\ replyTimers # <<>>
    /\ messages' =
          Append(messages,
                 Message("model", "reply", Head(replyTimers).reservoir, Head(replyTimers).userMsg))
    /\ isThinking' = FALSE
    /\ replyTimers' = Tail(replyTimers)
    /\ UNCHANGED input
    /\ UNCHANGED <<serviceVars, appVars, refreshVars, printVars, streamVars>>

\* The effect on [reservoir.id]: a context message is appended to the list.
ChatReservoirEffect ==
    IF state'.selectedReservoirId # state.selectedReservoirId
    THEN /\ Len(messages) + Len(replyTimers) < MaxMessages
         /\ messages' =
               Append(messages, Message("model", "context", state'.selectedReservoirId, <<>>))
         /\ UNCHANGED <<input, isThinking, replyTimers>>
    ELSE UNCHANGED chatVars

\* The reservoir selector of App and the reservoir effect of HydroChat in the
\* render that follows.
ChatReselect(newState) ==
    /\ StateChange(newState)
    /\ ChatReservoirEffect
    /\ UNCHANGED refreshVars

\* SpecChat: HydroChat inside App: typing, sending, the reply timers and
\* the reservoir selector, the list holding at most MaxMessages messages.
NextChat ==
    \/ \E text \in ChatTexts : TypeInput(text)
    \/ handleSend
    \/ ReplyTimerFires
    \/ \E newState \in ReservoirChoices : ChatReselect(newState)

SpecChat == Init /\ [][NextChat]_vars

\* FairSpecChat: a timer that was set fires.
FairSpecChat == SpecChat /\ WF_vars(ReplyTimerFires)

\* SpecDownload: the two report buttons and the reservoir selector, at most
\* MaxClicks clicks on Download Report, the generative service answering with
\* a report, with the text null, with text that is no JSON, or not at all.
DownloadInputs ==
    [ ops |-> {"generateHydrologicalReport"},
      args |-> [o \in Ops |-> {}],
      texts |-> {<<"full">>, <<"null">>, <<"junk">>},
      rand |-> {0} ]

NextDownload ==
    \/ \E newState \in ReservoirChoices : handleStateChange(newState)
    \/ PrintTimerFires
    \/ \E i \in Inv :
          \/ handleDownloadReport(i)
          \/ handleGenerateAI(i)
          \/ GenResolve(i, DownloadInputs)
          \/ GenReject(i)
          \/ GenerateAIResume(i)

SpecDownload == Init /\ [][NextDownload]_vars

\* ------------------------------------------------------- derived notions
Returned(i) == pc[i] = "returned"

\* The request to the backend ended in one of the failures of the taxonomy:
\* timeout, no connection, a status outside 2xx, or a 2xx body the code
\* could not read.
RemoteFailed(i) ==
    \/ remote[i] \in {"timeout", "network", "non2xx"}
    \/ remote[i] = "2xx" /\ TryBody(op[i], resp[i]).raised

\* The generative call failed, or answered with something the code rejected.
GenFailed(i) ==
    \/ genState[i] = "error"
    \/ genState[i] = "answered" /\ GenTryBody(op[i], genAns[i]).raised

\* No call of invocation i is pending any more.
Settled(i) == pc[i] # "idle" /\ remote[i] # "pending" /\ genState[i] # "pending"

\* handleFeedbackSubmit of App: awaits sendFeedback inside a try block, logs
\* "RLHF Feedback sent." after it and ignores the value; its catch block is
\* empty.  It sets no state: the log line is all it leaves behind.
handleFeedbackSubmit(i) ==
    CASE pc[i] = "returned" -> "RLHF Feedback sent."
      [] pc[i] = "thrown" -> "quiet"
      [] OTHER -> "awaiting"

\* ------------------------------------------------------------------ claims

\* C1: no operation of the access layer throws or rejects to its caller:
\* whatever way its remote calls end (timeout, network error, status outside
\* 2xx, unreadable body, generative-service error), an invocation with no call
\* pending has returned a value.
C1_NeverThrows ==
    \A i \in Inv :
        /\ pc[i] # "thrown"
        /\ Settled(i) => Returned(i) /\ ret[i] # NoValue

\* C1 witness: a getForecast that got a 2xx answer with body null and a
\* generateReport whose backend answered outside 2xx and whose generative call
\* failed have both returned.
C1_Witness ==
    \E i \in Inv : \E j \in Inv :
        /\ op[i] = "getForecast" /\ remote[i] = "2xx" /\ resp[i] = Null /\ Returned(i)
        /\ op[j] = "generateReport" /\ remote[j] = "non2xx" /\ genState[j] = "error"
        /\ Returned(j)

\* C2: generateReport tries its tiers in the order backend, generative
\* service, static object: the generative service is called only after the
\* backend attempt of the invocation failed, the static report is returned only
\* after both the backend attempt and the generative attempt failed, and no
\* failure escapes.
C2_TiersInOrder ==
    \A i \in Inv :
        op[i] = "generateReport" =>
            /\ pc[i] # "thrown"
            /\ genCalls[i] > 0 => RemoteFailed(i)
            /\ fallbacks[i] > 0 => RemoteFailed(i) /\ genCalls[i] > 0 /\ GenFailed(i)

\* The backend request and the generative call of invocation i, a
\* generateReport, both failed, and it has returned.
C3_BothFailed(i) ==
    /\ op[i] = "generateReport" /\ Returned(i)
    /\ RemoteFailed(i) /\ genCalls[i] > 0 /\ genState[i] = "error"

C4_EveryInvocationReturns ==
    \A i \in Inv : (pc[i] # "idle") ~> Returned(i)

\* C5: for getSatelliteData, getForecast, checkAnomaly and getMLMetrics a 2xx
\* answer whose body does not have the documented success shape is a failure:
\* the operation returns its local fallback value, not the body nor a field
\* read from it.
C5_MalformedPayloadFallsBack ==
    \A i \in Inv :
        ( /\ op[i] \in {"getSatelliteData", "getForecast", "checkAnomaly", "getMLMetrics"}
          /\ Returned(i) /\ remote[i] = "2xx" /\ ~WellFormed(op[i], resp[i]) )
        => /\ fallbacks[i] = 1
           /\ ret[i] \in FallbackValues(op[i], arg[i], apiRevision, reportRevision,
                                        LifecycleInputs.rand, now)

\* C6: every report returned by report generation, on every path (backend
\* success, generative success, static fallback), has all six fields.
C6_ReportFullyPopulated ==
    \A i \in Inv :
        op[i] \in ReportOps /\ Returned(i) => SixFields \subseteq Fields(ret[i])

\* A text is JSON when it is one JSON value with only white space around it.
IsJSONText(s) ==
    \E k \in 1..Len(s) :
        /\ s[k] \in JSONValueTokens
        /\ \A m \in 1..Len(s) : m # k => s[m] = "ws"

\* The generative call of invocation i answered, with ans.
GenAnswered(i) == op[i] \in ReportOps /\ Returned(i) /\ genState[i] = "answered"

\* The invocation ended as it ends when the generative call fails.
EndsLikeGenFailure(i) ==
    /\ fallbacks[i] = 1
    /\ ret[i] = StaticReport(op[i], apiRevision, reportRevision)

\* C7 as stated: in the generative tier an empty response, or a response text
\* that does not parse as JSON, is handled like a network failure of the tier:
\* the static fallback report is returned.
C7_Original ==
    \A i \in Inv :
        GenAnswered(i) /\ (Falsy(genAns[i]) \/ ~IsJSONText(genAns[i].text))
        => EndsLikeGenFailure(i)

\* C7 amended: an empty response, or a response text that does not parse as
\* JSON once generateReport has removed the markdown fence markers from it, is
\* handled like a network failure of the tier: the static fallback report is
\* returned.
C7_ParseFailureIsStatic ==
    \A i \in Inv :
        LET text == IF op[i] = "generateReport" THEN StripFences(genAns[i].text)
                    ELSE genAns[i].text
        IN  GenAnswered(i) /\ (Falsy(genAns[i]) \/ ~IsJSONText(text))
            => EndsLikeGenFailure(i)

\* C7 witness: generateReport returned after the generative service answered
\* with a fenced text that is no JSON.
C7_Witness ==
    \E i \in Inv :
        /\ op[i] = "generateReport" /\ GenAnswered(i)
        /\ genAns[i] = [defined |-> TRUE, text |-> <<"fence_json", "junk">>]

\* Counters and request log of the invocations: one request each, at most one
\* fallback and only after a failed request, as many requests at an endpoint
\* as invocations that use it.
C8_OneAttempt ==
    /\ \A i \in Inv :
        /\ op[i] \in ApiOps => attempts[i] = 1
        /\ op[i] \notin ApiOps => attempts[i] = 0
        /\ fallbacks[i] <= 1
        /\ (op[i] \in ApiOps /\ fallbacks[i] = 1) => RemoteFailed(i)
        /\ (pc[i] = "requesting") = (remote[i] = "pending")
    /\ \A e \in Endpoints \ {GenerativeService} :
        sent[e] = Cardinality({i \in Inv : op[i] \in ApiOps /\ Endpoint(op[i], apiRevision) = e})

\* The moves of one invocation.
C8_Step ==
    \A i \in Inv :
        \/ pc'[i] = pc[i]
        \/ pc[i] = "idle" /\ pc'[i] = "requesting" /\ op'[i] \in ApiOps
        \/ pc[i] = "idle" /\ pc'[i] = "generating" /\ op'[i] \notin ApiOps
        \/ pc[i] = "requesting" /\ pc'[i] = "returned"
        \/ pc[i] = "requesting" /\ pc'[i] = "generating" /\ RemoteFailed(i)'
        \/ pc[i] = "generating" /\ pc'[i] = "returned"

\* C8: an invocation sends exactly one request to its endpoint, never a second
\* one; the fallback is computed at most once and only after that request
\* failed or timed out; k invocations cause k requests, also when they are in
\* flight together with the same arguments; and an invocation moves
\* idle -> requesting -> (succeeded | timed out | failed) -> returned.
C8_SingleAttemptLifecycle == []C8_OneAttempt /\ [][C8_Step]_vars

\* C8 witness: two getForecast invocations with the same arguments, the first
\* returned through its fallback, the second still waiting: two requests were
\* sent.
C8_Witness ==
    \E i \in Inv : \E j \in Inv :
        /\ i # j /\ op[i] = "getForecast" /\ op[j] = "getForecast" /\ arg[i] = arg[j]
        /\ Returned(i) /\ fallbacks[i] = 1 /\ pc[j] = "requesting"
        /\ sent["/api/ml/forecast"] = 2

\* C9: in the checkAnomaly fallback the standard-deviation proxy is
\* max(historicalAvg * 0.15, 1), the score is |currentVol - historicalAvg|
\* divided by it, and is_anomaly is true exactly when the score exceeds 2.5.
C9_StdDevProxyIsMax ==
    \A i \in Inv :
        op[i] = "checkAnomaly" /\ Returned(i) /\ fallbacks[i] = 1 =>
            LET deviation == Abs(arg[i].currentVol - arg[i].historicalAvg)
                proxy100 == Max(arg[i].historicalAvg * 15, 100)
            IN  /\ ret[i].anomaly_score = RoundDiv(10000 * deviation, proxy100)
                /\ ret[i].is_anomaly = (200 * deviation > 5 * proxy100)

\* C10: the anomaly_score of every verdict of the checkAnomaly fallback is at
\* least 0, for every currentVol and historicalAvg.
C10_ScoreNonNegative ==
    \A i \in Inv :
        op[i] = "checkAnomaly" /\ Returned(i) /\ fallbacks[i] = 1 =>
            ret[i].anomaly_score >= 0

TrendMultiplier100 == IF apiRevision = "part_002" THEN 100 ELSE 102

\* Invocation i is a getForecast that returned through its catch block.
ForecastFellBack(i) == op[i] = "getForecast" /\ Returned(i) /\ fallbacks[i] = 1

\* C12 as stated: the getForecast fallback returns exactly 0 for an empty
\* series and, for a series of length n > 0, the arithmetic mean of its last
\* min(3, n) elements times the trend multiplier of the revision (1.0 or 1.02).
C12_Original ==
    \A i \in Inv :
        ForecastFellBack(i) =>
            LET h == arg[i].historicalVolumes
                n == Len(h)
                k == Min(3, n)
                sum == SumSeq(SubSeq(h, n - k + 1, n))
            IN  /\ ret[i].t = "number"
                /\ n = 0 => ret[i].tenths = 0
                /\ n > 0 => ret[i].tenths * k * 10 = sum * TrendMultiplier100

\* C12 amended: the getForecast fallback returns exactly 0 for an empty series
\* and, for a series of length n > 0, the arithmetic mean of its last min(3, n)
\* elements times the trend multiplier of the revision, rounded to one decimal
\* place (within 0.05 of the product); no random draw enters the value.
C12_ForecastIsRoundedMean ==
    \A i \in Inv :
        ForecastFellBack(i) =>
            LET h == arg[i].historicalVolumes
                n == Len(h)
                k == Min(3, n)
                sum == SumSeq(SubSeq(h, n - k + 1, n))
            IN  /\ ret[i].t = "number"
                /\ n = 0 => ret[i].tenths = 0
                /\ n > 0 => 2 * Abs(ret[i].tenths * k * 10 - sum * TrendMultiplier100) <= k * 10
                /\ \A c \in 0..MaxClock :
                       FallbackValues(op[i], arg[i], apiRevision, reportRevision,
                                      {0, 500, 999}, c) = {ret[i]}

\* C12 witness: the fallback forecast of [30, 10, 10, 20], whose last three
\* elements have the mean 13.33...
C12_Witness ==
    \E i \in Inv :
        /\ ForecastFellBack(i)
        /\ arg[i].historicalVolumes = <<30, 10, 10, 20>>
        /\ ret[i].tenths \in {133, 136}

\* The four seasons of the dashboard.
FourSeasons == {"Winter", "Summer", "Monsoon", "Post-Monsoon"}

\* Invocation i is a getSatelliteData that returned through its catch block.
SatelliteFellBack(i) == op[i] = "getSatelliteData" /\ Returned(i) /\ fallbacks[i] = 1

\* C13: for each of the four seasons, every maxCapacity > 0 and every noise
\* draw, the fallback satellite reading has fill_percentage in [10, 98] and
\* volume_mcm greater than 0 and at most maxCapacity.
C13_FallbackReadingInRange ==
    \A i \in Inv :
        ( /\ SatelliteFellBack(i)
          /\ arg[i].season \in FourSeasons /\ arg[i].maxCapacity > 0 )
        => /\ ret[i].data.nan = {}
           /\ ret[i].data.fill_percentage >= 100 /\ ret[i].data.fill_percentage <= 980
           /\ ret[i].data.volume_mcm > 0
           /\ ret[i].data.volume_mcm * 10 <= arg[i].maxCapacity

\* C14: every satellite reading getSatelliteData returns, from the remote
\* endpoint or from the local simulation and for every maxCapacity, has
\* fill_percentage within [0, 100] and only finite numeric fields.
C14_ReadingFiniteAndClamped ==
    \A i \in Inv :
        ( /\ op[i] = "getSatelliteData" /\ Returned(i)
          /\ "data" \in Fields(ret[i]) )
        => /\ ret[i].data.nan = {}
           /\ ret[i].data.fill_percentage >= 0 /\ ret[i].data.fill_percentage <= 1000

\* C15: the satellite fallback takes its base fill fraction from the season
\* table (Monsoon 0.85, Post-Monsoon 0.75, Winter 0.60, Summer 0.35) and uses
\* 0.50 for every other season string; the final fill fraction is the base
\* plus a noise in [-0.05, +0.05], clamped to [0.10, 0.98], so it is a number
\* within 0.05 of the base.
C15_BaseFillFromSeasonTable ==
    \A i \in Inv :
        SatelliteFellBack(i) =>
            LET base == CASE arg[i].season = "Monsoon" -> 850
                          [] arg[i].season = "Post-Monsoon" -> 750
                          [] arg[i].season = "Winter" -> 600
                          [] arg[i].season = "Summer" -> 350
                          [] OTHER -> 500
            IN  /\ "fill_percentage" \notin ret[i].data.nan
                /\ Abs(ret[i].data.fill_percentage - base) <= 50
                /\ ret[i].data.fill_percentage >= 100 /\ ret[i].data.fill_percentage <= 980

\* Invocations i and j are two calls of the same operation with the same
\* arguments that both returned through the fallback.
SameCallFellBack(i, j) ==
    /\ i # j /\ op[i] = op[j] /\ arg[i] = arg[j]
    /\ Returned(i) /\ Returned(j) /\ fallbacks[i] = 1 /\ fallbacks[j] = 1

\* C16: under forced fallback, two calls of getForecast, checkAnomaly,
\* generateReport or getMLMetrics with the same arguments return the same
\* result; two such calls of getSatelliteData return readings whose fill
\* fractions are both within the noise (0.05) of the same base and whose
\* rainfall is the same.
C16_FallbackIdempotent ==
    \A i \in Inv : \A j \in Inv :
        SameCallFellBack(i, j) =>
            IF op[i] = "getSatelliteData"
            THEN /\ Abs(ret[i].data.fill_percentage - ret[j].data.fill_percentage) <= 100
                 /\ ret[i].data.rainfall_mm = ret[j].data.rainfall_mm
                 /\ ret[i].source = ret[j].source
            ELSE ret[i] = ret[j]

\* C17: whenever getSatelliteData takes the fallback path the source label it
\* returns is the fixed simulation label of the revision, which names a
\* simulation; when the remote call succeeds the value, label included, is the
\* one the remote sent; so the label is the simulation label exactly when the
\* result is a fallback.
C17_FallbackLabelled ==
    \A i \in Inv :
        op[i] = "getSatelliteData" /\ Returned(i) =>
            /\ fallbacks[i] = 1 =>
                  /\ RemoteFailed(i)
                  /\ ret[i].source = IF apiRevision = "part_002"
                                     THEN "Client-Side Simulation (Offline)"
                                     ELSE "Simulated Physics Engine (Active)"
            /\ fallbacks[i] = 0 => remote[i] = "2xx" /\ ret[i] = resp[i]
            /\ "source" \in Fields(ret[i]) =>
                  ( ret[i].source \in {"Client-Side Simulation (Offline)",
                                        "Simulated Physics Engine (Active)"}
                    <=> fallbacks[i] = 1 )

\* C17 witness: one getSatelliteData returned the simulated reading after a
\* timeout, another the reading the backend sent.
C17_Witness ==
    \E i \in Inv : \E j \in Inv :
        /\ op[i] = "getSatelliteData" /\ Returned(i) /\ remote[i] = "timeout"
        /\ fallbacks[i] = 1
        /\ op[j] = "getSatelliteData" /\ Returned(j) /\ remote[j] = "2xx"
        /\ ret[j].t = "object" /\ "source" \in Fields(ret[j])
        /\ ret[i].source # ret[j].source

\* C18: if the metrics endpoint fails or times out, getMLMetrics returns a
\* non-empty mapping of model name to metric in which the status of every
\* entry signals data that is not live ("Offline", the status the metrics
\* panel shows as such).
C18_MetricsFallbackNonLive ==
    \A i \in Inv :
        op[i] = "getMLMetrics" /\ Returned(i) /\ fallbacks[i] = 1 =>
            /\ Fields(ret[i]) # {}
            /\ \A m \in Fields(ret[i]) : ret[i][m].status = "Offline"

\* C19: sendFeedback makes one remote attempt and no other call; if the
\* attempt fails or times out the failure is swallowed, the call resolves
\* with no value (undefined), no fallback value is built, and the caller is
\* left as it is when the feedback was accepted.
C19_FeedbackSwallowed ==
    \A i \in Inv :
        op[i] = "sendFeedback" /\ Settled(i) =>
            /\ attempts[i] = 1 /\ genCalls[i] = 0
            /\ Returned(i)
            /\ RemoteFailed(i) => ret[i] = Undefined
            /\ ~RemoteFailed(i) => ret[i].t = "object" /\ ret[i].data = resp[i]
            /\ handleFeedbackSubmit(i) = "RLHF Feedback sent."

\* C19 witness: one sendFeedback whose request timed out and one whose
\* feedback the backend accepted have both returned.
C19_Witness ==
    \E i \in Inv : \E j \in Inv :
        /\ op[i] = "sendFeedback" /\ Returned(i) /\ remote[i] = "timeout"
        /\ op[j] = "sendFeedback" /\ Returned(j) /\ remote[j] = "2xx"
        /\ resp[j] = GoodPayload("sendFeedback")

\* C20: whenever aiAnalysis is not null it is the report generated for the
\* reservoir, year and season now selected: a change of the selection, by a
\* control, by a time-lapse tick or while a report is being generated, leaves
\* aiAnalysis null until a report for the new selection is generated.
C20_AnalysisMatchesSelection ==
    aiAnalysisOf # 0 /\ aiAnalysis # Null => arg[aiAnalysisOf] = ReportArgs(state)

\* ------------------------------------------------------------------- C21
\* No run of fetchRealData is in flight.
RefreshQuiet == InFlight = {}

\* C21: once every run of fetchRealData has completed, liveData and mlForecast
\* are the values set by the run started for the latest selection (which ran
\* its try block to the end): no earlier run that finished later replaced them.
C21_LatestRunWins ==
    (RefreshQuiet /\ runs[LatestRun].outcome = "completed")
        => (liveDataOf = LatestRun /\ mlForecastOf = LatestRun)

\* ------------------------------------------------------------------- C22
\* C22: backendStatus is 'online' in every reachable state, so the header
\* shows "Live Backend" and the primary map is marked live, also after a run
\* of fetchRealData got a fallback reading or ended in its catch block.
C22_AlwaysOnline ==
    /\ backendStatus = "online"
    /\ HeaderBadge(backendStatus) = "Live Backend"
    /\ MapIsLive(backendStatus)

\* One run ended in its catch block and another completed with the reading
\* of the catch block of getSatelliteData.
C22_Witness ==
    \E r, q \in 1..MaxRuns :
        /\ runs[r].outcome = "caught"
        /\ runs[q].outcome = "completed"
        /\ runs[q].satData.source = SimulationLabel(apiRevision)

\* ------------------------------------------------------------------- C24
\* C24: isLoadingLive is true exactly while at least one run of fetchRealData
\* is in flight.
C24_LoadingWhileInFlight == isLoadingLive = (InFlight # {})

\* ------------------------------------------------------------------- C26
MinYear == SetMin(availableYears)
MaxYear == SetMax(availableYears)

\* What the claim says a tick does to the selection.
C26_Expected ==
    LET k == SeasonIdx(state.season)
    IN  /\ k < 4 =>
              /\ state'.season = <<"Winter", "Summer", "Monsoon", "Post-Monsoon">>[k + 1]
              /\ state'.year = state.year
        /\ k = 4 =>
              /\ state'.season = "Winter"
              /\ state'.year = IF state.year + 1 > MaxYear THEN MinYear ELSE state.year + 1
        /\ state'.selectedReservoirId = state.selectedReservoirId
        /\ state.year \in MinYear..MaxYear => state'.year \in MinYear..MaxYear

\* C26: a time-lapse tick moves the selection one season forward in the order
\* Winter, Summer, Monsoon, Post-Monsoon, from Post-Monsoon to Winter of the
\* next year, past the largest available year to Winter of the smallest one;
\* a year inside the available range stays inside it.
C26_TickOrder ==
    [][TimeLapseTick => C26_Expected]_vars /\ [](state.year \in MinYear..MaxYear)

\* A tick has just wrapped from Post-Monsoon of the largest year to Winter of
\* the smallest one.
C26_Witness ==
    /\ lastEvent = Event("tick", TRUE)
    /\ state.year = MinYear
    /\ state.season = "Winter"
    /\ MinYear < MaxYear

\* ------------------------------------------------------------------- C27
\* A step that changes the selected year or season.
FrameChanges == state'.year # state.year \/ state'.season # state.season

\* C27: handleStateChange with a year, season or reservoir leaves isPlaying
\* false, and while isPlaying is false no tick happens: the year and season
\* change only through handleStateChange until play is toggled on again.
C27_ManualChangeStopsPlay ==
    /\ [][\A newState \in NewStates :
            (handleStateChange(newState)
                /\ DOMAIN newState \cap {"year", "season", "selectedReservoirId"} # {})
            => ~isPlaying']_vars
    /\ [][(~isPlaying /\ FrameChanges)
            => (~TimeLapseTick /\ \E newState \in NewStates : handleStateChange(newState))]_vars

\* A manual change has just stopped a running time-lapse.
C27_Witness ==
    /\ lastEvent = Event("handleStateChange", TRUE)
    /\ ~isPlaying

\* ------------------------------------------------------------------- C25
\* The generative calls made so far.
GenerationsStarted == SumSeq([i \in Inv |-> genCalls[i]])

\* C25, a click: with a report on display it prints at once and starts no
\* generation; without one it starts exactly one generation and prints nothing
\* yet.
C25_Click ==
    \A i \in Inv :
        handleDownloadReport(i) =>
            IF aiAnalysis # Null
            THEN /\ prints' = prints + 1
                 /\ alerts' = alerts
                 /\ printTimers' = printTimers
                 /\ GenerationsStarted' = GenerationsStarted
                 /\ ~isGeneratingReport'
            ELSE /\ prints' = prints
                 /\ alerts' = alerts
                 /\ printTimers' = printTimers
                 /\ GenerationsStarted' = GenerationsStarted + 1
                 /\ isGeneratingReport'

\* C25, the end of the generation a click started: a delayed print when a
\* result came back, an alert and a print when it returned null.
C25_AfterGeneration ==
    \A i \in Inv :
        (GenerateAIResume(i) /\ downloadAwaits) =>
            /\ ~isGeneratingReport'
            /\ IF pc[i] = "returned" /\ ret[i] # Null
               THEN prints' = prints /\ printTimers' = printTimers + 1 /\ alerts' = alerts
               ELSE prints' = prints + 1 /\ printTimers' = printTimers /\ alerts' = alerts + 1

\* C25: every click on Download Report has printed once, or its one print is
\* still to come (its generation is running, or the delay after it); a click
\* prints at once when a report is on display and otherwise starts exactly
\* one generation, followed by a delayed print when a result came back and by
\* an alert and a print when it returned null; isGeneratingReport is true
\* exactly while a generation is awaited.
C25_OnePrintPerClick ==
    /\ [](clicks = prints + printTimers + (IF downloadAwaits THEN 1 ELSE 0))
    /\ [](downloadAwaits => isGeneratingReport)
    /\ [](isGeneratingReport <=> reportCall # 0)
    /\ [][C25_Click]_vars
    /\ [][C25_AfterGeneration]_vars

\* MaxClicks clicks have all printed, one of them after the alert, and a
\* report is on display.
C25_Witness ==
    /\ clicks = MaxClicks
    /\ prints = clicks
    /\ alerts = 1
    /\ aiAnalysis # Null

\* ------------------------------------------------------------------- C23
\* C23: while the socket opened for the current url is open, isConnected is
\* true: the close event of an earlier socket does not leave it false.
C23_ConnectedWhileCurrentOpen ==
    (mounted /\ sockets[wsCurrent] = "open") => isConnected

\* ------------------------------------------------------------------- C28
\* The questions and the replies of the list, in order.
Exchange == SelectSeq(messages, LAMBDA m : m.kind \in {"question", "reply"})

\* Questions and replies alternate, each reply answering the question before
\* it, and the last question is unanswered exactly while isThinking.
OneReplyEach ==
    /\ \A j \in 1..Len(Exchange) :
          IF j % 2 = 1
          THEN Exchange[j].kind = "question" /\ Trim(Exchange[j].text) # <<>>
          ELSE /\ Exchange[j].kind = "reply"
               /\ Exchange[j].text = Exchange[j - 1].text
    /\ isThinking <=> Len(Exchange) % 2 = 1

\* A send while the input is blank or a reply is pending changes nothing.
IgnoredSend ==
    (handleSend /\ (Trim(input) = <<>> \/ isThinking)) => UNCHANGED chatVars

\* The list changes by one message appended at its end.
AppendOnly ==
    \/ messages' = messages
    \/ /\ Len(messages') = Len(messages) + 1
       /\ SubSeq(messages', 1, Len(messages)) = messages

C29_ResetOnReservoirChange ==
    \A j \in 1..Len(messages) : messages[j].reservoir = state.selectedReservoirId

====
